---- MODULE Spec2Model ----
(***************************************************************************)
(* Model of mpc::small_vector<T, N> (src/small_vector.h).                  *)
(*                                                                         *)
(* The state is a set of named container objects (each with the fields     *)
(* m_size, m_capacity, m_data and the inline m_buffer) and a heap of       *)
(* blocks handed out by ::operator new.  A slot of a region holds either a *)
(* live element value or Raw (no live object).  Every member function is   *)
(* a pure operator from a world W to a world, written after its code; the  *)
(* actions apply one member function each.                                 *)
(*                                                                         *)
(* The element type T is a copyable type whose copy constructor may throw  *)
(* and whose move constructor is not noexcept, so std::move_if_noexcept    *)
(* copies.  W.fuel counts the element constructions that succeed before    *)
(* one throws.  An access that the language leaves undefined (a write      *)
(* outside the region, destroying or reading a slot with no live object)   *)
(* sets W.ub; the run then ends in the fault state.                        *)
(*                                                                         *)
(* A property of a member function is stated, in every reachable state,    *)
(* of the world that function leaves when it is called there.              *)
(***************************************************************************)
EXTENDS Integers, Sequences, FiniteSets, TLC

N == 1          \* template parameter N: slots of the inline buffer
MaxCap == 4     \* largest block ::operator new grants (elements)
MaxBlocks == 2  \* blocks the heap can hold at once
MaxFail == 1    \* latest element construction that is made to throw

Vecs == {"a", "b"}
Tmp == "t"      \* the by-value parameter of operator=
AllVecs == Vecs \cup {Tmp}
Vals == {"x", "y"}
Raw == "raw"
Buf == 0        \* m_data == buffer()
Blocks == 1..MaxBlocks
NoFail == MaxCap + MaxCap + 1

VARIABLES vec, heap, ub, delBuf, dblFree

vars == <<vec, heap, ub, delBuf, dblFree>>

RawSlots(n) == [i \in 1..n |-> Raw]

\* a container object that is not constructed
NoObject == [alive |-> FALSE, m_size |-> 0, m_capacity |-> 0, m_data |-> Buf,
             m_buffer |-> RawSlots(N)]

NoBlock == [alloc |-> FALSE, slots |-> << >>]

----------------------------------------------------------------------------
(* Raw memory and object lifetime                                          *)

\* number of slots of the region p points to (p = Buf: v's inline buffer)
RegLen(W, v, p) == IF p = Buf THEN N ELSE Len(W.heap[p].slots)

Get(W, v, p, i) == IF p = Buf THEN W.vec[v].m_buffer[i + 1] ELSE W.heap[p].slots[i + 1]

Put(W, v, p, i, x) ==
    IF p = Buf THEN [W EXCEPT !.vec[v].m_buffer[i + 1] = x]
    ELSE [W EXCEPT !.heap[p].slots[i + 1] = x]

\* reading element i as a T needs a live object inside the region
Readable(W, v, p, i) == i < RegLen(W, v, p) /\ Get(W, v, p, i) # Raw

CanNew(W, n) == n <= MaxCap /\ \E b \in Blocks : ~W.heap[b].alloc

NewId(W) == CHOOSE b \in Blocks : ~W.heap[b].alloc /\ \A c \in Blocks : c < b => W.heap[c].alloc

\* ::operator new(n * sizeof(value_type)), the block being b
operator_new(W, b, n) == [W EXCEPT !.heap[b] = [alloc |-> TRUE, slots |-> RawSlots(n)]]

\* ::operator delete(p)
operator_delete(W, p) ==
    IF p = Buf THEN [W EXCEPT !.delBuf = TRUE]
    ELSE IF ~W.heap[p].alloc THEN [W EXCEPT !.dblFree = TRUE]
    ELSE [W EXCEPT !.heap[p] = NoBlock, !.frees = @ + 1]

\* new (p + i) value_type(x)
construct(W, v, p, i, x) ==
    IF W.ub THEN W
    ELSE IF W.fuel = 0 THEN [W EXCEPT !.exc = "elem", !.fuel = NoFail]
    ELSE IF i >= RegLen(W, v, p) THEN [W EXCEPT !.ub = TRUE]
    ELSE [Put(W, v, p, i, x) EXCEPT !.fuel = IF W.fuel = NoFail THEN NoFail ELSE W.fuel - 1]

\* (p + i)->~value_type()
destroy(W, v, p, i) ==
    IF W.ub THEN W
    ELSE IF ~Readable(W, v, p, i) THEN [W EXCEPT !.ub = TRUE]
    ELSE Put(W, v, p, i, Raw)

----------------------------------------------------------------------------
(* Member functions.  Each is a composition of the steps of its code; a    *)
(* step passes a faulted world (ub) on unchanged, and a world carrying an  *)
(* exception (exc) skips the code the exception skips.                     *)

Size(W, v) == W.vec[v].m_size
Cap(W, v) == W.vec[v].m_capacity
Data(W, v) == W.vec[v].m_data
Stopped(W) == W.ub \/ W.exc # "none"

uses_buffer(W, v) == W.vec[v].m_size <= N

\* small_vector()
small_vector_default(W, v) ==
    [W EXCEPT !.vec[v] = [alive |-> TRUE, m_size |-> 0, m_capacity |-> N, m_data |-> Buf,
                          m_buffer |-> RawSlots(N)]]

RECURSIVE clear_loop(_, _, _)
clear_loop(W, v, i) ==
    IF W.ub \/ i >= Size(W, v) THEN W
    ELSE clear_loop(destroy(W, v, Data(W, v), i), v, i + 1)

clear_done(W, v) == IF W.ub THEN W ELSE [W EXCEPT !.vec[v].m_size = 0]

\* void clear()
clear(W, v) == clear_done(clear_loop(W, v, 0), v)

\* if (!uses_buffer()) { ::operator delete(m_data); }
delete_unless_buffer(W, v) ==
    IF W.ub \/ uses_buffer(W, v) THEN W ELSE operator_delete(W, Data(W, v))

\* the loop of reserve's try block; W.i is the local variable i when it ends
RECURSIVE reserve_transfer(_, _, _, _)
RECURSIVE reserve_transfer_next(_, _, _, _)
reserve_transfer(W, v, tmp, i) ==
    IF W.ub \/ i >= Size(W, v) THEN [W EXCEPT !.i = i]
    ELSE IF ~Readable(W, v, Data(W, v), i) THEN [W EXCEPT !.ub = TRUE]
    ELSE reserve_transfer_next(construct(W, v, tmp, i, Get(W, v, Data(W, v), i)), v, tmp, i)

reserve_transfer_next(W, v, tmp, i) ==
    IF W.exc # "none" THEN [W EXCEPT !.i = i]
    ELSE reserve_transfer(W, v, tmp, i + 1)

\* catch (...) { for (; i > 0; --i) { destroy; delete; throw; } }: with
\* i == 0 the body never runs and the handler ends without rethrowing
reserve_catch(W, v, tmp) ==
    IF W.ub \/ W.exc = "none" THEN W
    ELSE IF W.i > 0 THEN operator_delete(destroy(W, v, tmp, W.i - 1), tmp)
    ELSE [W EXCEPT !.exc = "none"]

reserve_commit(W, v, tmp, capacity) ==
    IF W.ub THEN W
    ELSE [W EXCEPT !.vec[v].m_data = tmp,
                   !.vec[v].m_capacity = capacity,
                   !.vec[v].m_size = W.i]

\* lines 174-180: clear(), release the old region, adopt tmp
reserve_adopt(W, v, tmp, capacity) ==
    IF Stopped(W) THEN W
    ELSE reserve_commit(delete_unless_buffer(clear(W, v), v), v, tmp, capacity)

reserve_into(W, v, tmp, capacity) ==
    reserve_adopt(
        reserve_catch(reserve_transfer(operator_new(W, tmp, capacity), v, tmp, 0), v, tmp),
        v, tmp, capacity)

\* void reserve(size_type capacity)
reserve(W, v, capacity) ==
    IF W.ub \/ capacity <= Cap(W, v) THEN W
    ELSE IF ~CanNew(W, capacity) THEN [W EXCEPT !.exc = "bad_alloc"]
    ELSE reserve_into(W, v, NewId(W), capacity)

\* the growth step taken one append early, when the append fills the capacity
emplace_grow_early(W, v) ==
    IF Size(W, v) + 1 >= Cap(W, v)
    THEN reserve(W, v, IF Cap(W, v) = 0 THEN 1 ELSE 2 * Cap(W, v))
    ELSE W

\* the growth step asking for one more slot instead of twice the capacity
emplace_grow_by_one(W, v) ==
    IF Size(W, v) >= Cap(W, v) THEN reserve(W, v, Cap(W, v) + 1) ELSE W

emplace_grow(W, v) ==
    IF Size(W, v) >= Cap(W, v)
    THEN reserve(W, v, IF Cap(W, v) = 0 THEN 1 ELSE 2 * Cap(W, v))
    ELSE W

emplace_done(W, v) == IF Stopped(W) THEN W ELSE [W EXCEPT !.vec[v].m_size = @ + 1]

emplace_construct(W, v, x) ==
    IF Stopped(W) THEN W
    ELSE emplace_done(construct(W, v, Data(W, v), Size(W, v), x), v)

\* reference emplace_back(Args&&... args)
emplace_back(W, v, x) == emplace_construct(emplace_grow(W, v), v, x)

\* void push_back(const_reference item)
push_back(W, v, x) == emplace_back(W, v, x)

\* reference operator[](size_type pos), the caller assigning x through it
subscript_assign(W, v, pos, x) ==
    IF W.ub THEN W
    ELSE IF ~Readable(W, v, Data(W, v), pos) THEN [W EXCEPT !.ub = TRUE]
    ELSE Put(W, v, Data(W, v), pos, x)

\* the object is gone once its destructor has run
dtor_done(W, v) == IF W.ub THEN W ELSE [W EXCEPT !.vec[v] = NoObject]

delete_data(W, v) == IF W.ub THEN W ELSE operator_delete(W, Data(W, v))

\* ~small_vector() without the uses_buffer() test before ::operator delete
dtor_delete_always(W, v) == dtor_done(delete_data(clear(W, v), v), v)

\* ~small_vector()
dtor(W, v) == dtor_done(delete_unless_buffer(clear(W, v), v), v)

copy_reserve(W, v, other) ==
    IF Size(W, other) > Cap(W, v) THEN reserve(W, v, Size(W, other)) ELSE W

RECURSIVE copy_loop(_, _, _, _)
copy_loop(W, v, other, i) ==
    IF Stopped(W) \/ i >= Size(W, other) THEN W
    ELSE IF ~Readable(W, other, Data(W, other), i) THEN [W EXCEPT !.ub = TRUE]
    ELSE copy_loop(push_back(W, v, Get(W, other, Data(W, other), i)), v, other, i + 1)

\* a throw after the delegated small_vector() unwinds through ~small_vector()
copy_unwind(W, v) == IF W.ub \/ W.exc = "none" THEN W ELSE dtor(W, v)

\* small_vector(const small_vector & other)
small_vector_copy(W, v, other) ==
    copy_unwind(copy_loop(copy_reserve(small_vector_default(W, v), v, other), v, other, 0), v)

\* the member initialisers of the move constructor: m_buffer starts raw
move_init(W, v, other) ==
    [W EXCEPT !.vec[v] = [alive |-> TRUE, m_size |-> Size(W, other),
                          m_capacity |-> Cap(W, other), m_data |-> Buf,
                          m_buffer |-> RawSlots(N)]]

\* std::swap(m_buffer, other.m_buffer)
swap_buffers(W, v, other) ==
    [W EXCEPT !.vec[v].m_buffer = W.vec[other].m_buffer,
              !.vec[other].m_buffer = W.vec[v].m_buffer]

move_take(W, v, other) ==
    IF uses_buffer(W, other) THEN swap_buffers(W, v, other)
    ELSE [W EXCEPT !.vec[v].m_data = Data(W, other)]

\* the move constructor without its last line, other.m_capacity = N
move_reset_keep_capacity(W, other) ==
    [W EXCEPT !.vec[other].m_data = Buf, !.vec[other].m_size = 0]

move_reset(W, other) ==
    [W EXCEPT !.vec[other].m_data = Buf, !.vec[other].m_size = 0,
              !.vec[other].m_capacity = N]

\* small_vector(small_vector && other)
small_vector_move(W, v, other) == move_reset(move_take(move_init(W, v, other), v, other), other)

\* what std::uninitialized_copy constructed is destroyed again when it throws
uninitialized_undo(W, v) ==
    IF Data(W, v) = Buf THEN [W EXCEPT !.vec[v].m_buffer = RawSlots(N)]
    ELSE [W EXCEPT !.heap[Data(W, v)].slots = RawSlots(Len(@))]

\* std::uninitialized_copy(init.begin(), init.end(), m_data)
RECURSIVE uninitialized_copy(_, _, _, _)
RECURSIVE uninitialized_next(_, _, _, _)
uninitialized_copy(W, v, init, i) ==
    IF W.ub \/ i >= Len(init) THEN W
    ELSE uninitialized_next(construct(W, v, Data(W, v), i, init[i + 1]), v, init, i)

uninitialized_next(W, v, init, i) ==
    IF W.ub THEN W
    ELSE IF W.exc # "none" THEN uninitialized_undo(W, v)
    ELSE uninitialized_copy(W, v, init, i + 1)

\* the member initialisers of the initializer-list constructor, p being m_data
init_members(W, v, n, p) ==
    [W EXCEPT !.vec[v] = [alive |-> TRUE, m_size |-> n, m_capacity |-> n,
                          m_data |-> p, m_buffer |-> RawSlots(N)]]

init_alloc(W, v, n, p) ==
    IF p = Buf THEN init_members(W, v, n, p)
    ELSE init_members(operator_new(W, p, n), v, n, p)

\* the handler of the initializer-list constructor rethrowing without
\* ::operator delete
init_catch_keep_block(W, v) ==
    IF W.ub \/ W.exc = "none" THEN W ELSE [W EXCEPT !.vec[v] = NoObject]

\* catch (...) { if (m_data != buffer()) delete; throw; }: no object remains
init_catch(W, v) ==
    IF W.ub \/ W.exc = "none" THEN W
    ELSE IF Data(W, v) # Buf
    THEN [operator_delete(W, Data(W, v)) EXCEPT !.vec[v] = NoObject]
    ELSE [W EXCEPT !.vec[v] = NoObject]

\* small_vector(std::initializer_list<value_type> init)
small_vector_init(W, v, init) ==
    IF Len(init) > N /\ ~CanNew(W, Len(init)) THEN [W EXCEPT !.exc = "bad_alloc"]
    ELSE init_catch(
             uninitialized_copy(
                 init_alloc(W, v, Len(init), IF Len(init) > N THEN NewId(W) ELSE Buf),
                 v, init, 0),
             v)

\* the four branches of swap, a and b being the two objects before the call
swap_data(W, v, other, a, b) ==
    IF a.m_size <= N /\ b.m_size <= N THEN swap_buffers(W, v, other)
    ELSE IF a.m_size <= N
    THEN [swap_buffers(W, v, other) EXCEPT !.vec[v].m_data = b.m_data,
                                           !.vec[other].m_data = Buf]
    ELSE IF b.m_size <= N
    THEN [swap_buffers(W, v, other) EXCEPT !.vec[other].m_data = a.m_data,
                                           !.vec[v].m_data = Buf]
    ELSE [W EXCEPT !.vec[v].m_data = b.m_data, !.vec[other].m_data = a.m_data]

\* swap exchanging the sizes but not the capacities
swap_sizes_only(W, v, other, a, b) ==
    [W EXCEPT !.vec[v].m_size = b.m_size, !.vec[other].m_size = a.m_size]

\* std::swap(m_capacity, other.m_capacity); std::swap(m_size, other.m_size)
swap_counts(W, v, other, a, b) ==
    [W EXCEPT !.vec[v].m_capacity = b.m_capacity, !.vec[v].m_size = b.m_size,
              !.vec[other].m_capacity = a.m_capacity, !.vec[other].m_size = a.m_size]

\* void swap(small_vector & other)
swap(W, v, other) ==
    swap_counts(swap_data(W, v, other, W.vec[v], W.vec[other]), v, other,
                W.vec[v], W.vec[other])

RECURSIVE resize_grow(_, _, _, _, _)
resize_grow(W, v, i, size, value) ==
    IF Stopped(W) \/ i >= size THEN W
    ELSE resize_grow(push_back(W, v, value), v, i + 1, size, value)

\* for (size_type i = m_size; i < size; ++i) push_back(value), after reserve
resize_fill(W, v, size, value) ==
    IF Stopped(W) THEN W ELSE resize_grow(W, v, Size(W, v), size, value)

destroy_last(W, v) == destroy(W, v, Data(W, v), Size(W, v))

\* while (m_size > size) m_data[--m_size].~value_type()
RECURSIVE resize_shrink(_, _, _)
resize_shrink(W, v, size) ==
    IF W.ub \/ Size(W, v) <= size THEN W
    ELSE resize_shrink(destroy_last([W EXCEPT !.vec[v].m_size = @ - 1], v), v, size)

\* void resize(size_type size, const_reference value)
resize(W, v, size, value) ==
    IF size = Size(W, v) THEN W
    ELSE IF size > Size(W, v) THEN resize_fill(reserve(W, v, size), v, size, value)
    ELSE resize_shrink(W, v, size)

\* operator= once its parameter is constructed: swap(other), then ~other
assign_swap(W, v) == IF Stopped(W) THEN W ELSE dtor(swap(W, v, Tmp), Tmp)

\* small_vector& operator=(small_vector other), called with an lvalue: the
\* parameter is copy-constructed
assign_copy(W, v, src) == assign_swap(small_vector_copy(W, Tmp, src), v)

\* operator= called with an rvalue: the parameter is move-constructed
assign_move(W, v, src) == assign_swap(small_vector_move(W, Tmp, src), v)

----------------------------------------------------------------------------
(* The program: any sequence of public operations on the objects of Vecs   *)

Fails == (0..MaxFail) \cup {NoFail}
InitLists == UNION {[1..n -> Vals] : n \in 0..(N + 1)}

\* the current state as the world a call starts in; frees counts the blocks
\* the call hands back to ::operator delete
World(fuel) == [vec |-> vec, heap |-> heap, ub |-> FALSE, exc |-> "none", fuel |-> fuel,
                delBuf |-> delBuf, dblFree |-> dblFree, frees |-> 0, i |-> 0]

Alive(v) == vec[v].alive

\* One call: Wout is the world the member function leaves.  A call that runs
\* into undefined behaviour ends the run in the fault state (ub), where
\* nothing is known of the objects any more.
Call(Wout) ==
    /\ ~ub
    /\ vec' = IF Wout.ub THEN [v \in AllVecs |-> NoObject] ELSE Wout.vec
    /\ heap' = IF Wout.ub THEN [b \in Blocks |-> NoBlock] ELSE Wout.heap
    /\ ub' = Wout.ub
    /\ delBuf' = Wout.delBuf
    /\ dblFree' = Wout.dblFree

Init ==
    /\ vec = [v \in AllVecs |-> NoObject]
    /\ heap = [b \in Blocks |-> NoBlock]
    /\ ub = FALSE
    /\ delBuf = FALSE
    /\ dblFree = FALSE

DefaultCtor ==
    \E v \in Vecs :
        /\ ~Alive(v)
        /\ Call(small_vector_default(World(NoFail), v))

CopyCtor ==
    \E v \in Vecs, src \in Vecs, f \in Fails :
        /\ ~Alive(v) /\ Alive(src)
        /\ Call(small_vector_copy(World(f), v, src))

MoveCtor ==
    \E v \in Vecs, src \in Vecs :
        /\ ~Alive(v) /\ Alive(src)
        /\ Call(small_vector_move(World(NoFail), v, src))

InitListCtor ==
    \E v \in Vecs, init \in InitLists, f \in Fails :
        /\ ~Alive(v)
        /\ Call(small_vector_init(World(f), v, init))

PushBack ==
    \E v \in Vecs, x \in Vals, f \in Fails :
        /\ Alive(v)
        /\ Call(push_back(World(f), v, x))

Clear ==
    \E v \in Vecs :
        /\ Alive(v)
        /\ Call(clear(World(NoFail), v))

Swap ==
    \E v \in Vecs, w \in Vecs :
        /\ v # w /\ Alive(v) /\ Alive(w)
        /\ Call(swap(World(NoFail), v, w))

Resize ==
    \E v \in Vecs, n \in 0..MaxCap, x \in Vals, f \in Fails :
        /\ Alive(v)
        /\ Call(resize(World(f), v, n, x))

Reserve ==
    \E v \in Vecs, c \in 0..MaxCap, f \in Fails :
        /\ Alive(v)
        /\ Call(reserve(World(f), v, c))

Dtor ==
    \E v \in Vecs :
        /\ Alive(v)
        /\ Call(dtor(World(NoFail), v))

AssignCopy ==
    \E v \in Vecs, src \in Vecs, f \in Fails :
        /\ Alive(v) /\ Alive(src)
        /\ Call(assign_copy(World(f), v, src))

AssignMove ==
    \E v \in Vecs, src \in Vecs :
        /\ v # src /\ Alive(v) /\ Alive(src)
        /\ Call(assign_move(World(NoFail), v, src))

\* v[pos] = x, with pos < size() as operator[] requires of its caller
ElementWrite ==
    \E v \in Vecs, pos \in 0..(MaxCap - 1), x \in Vals :
        /\ Alive(v) /\ pos < vec[v].m_size
        /\ Call(subscript_assign(World(NoFail), v, pos, x))

Next ==
    \/ DefaultCtor \/ CopyCtor \/ MoveCtor \/ InitListCtor
    \/ PushBack \/ Clear \/ Swap \/ Resize \/ Reserve \/ Dtor
    \/ AssignCopy \/ AssignMove \/ ElementWrite

Spec == Init /\ [][Next]_vars

----------------------------------------------------------------------------
(* Observations used by the properties                                     *)

Here == World(NoFail)

\* what element access i of v yields: a value, Raw, or "outside" the region
SlotAt(W, v, i) ==
    IF i < RegLen(W, v, W.vec[v].m_data) THEN Get(W, v, W.vec[v].m_data, i) ELSE "outside"

Contents(W, v) == [i \in 1..W.vec[v].m_size |-> SlotAt(W, v, i - 1)]

InBuffer(W, v) == W.vec[v].m_data = Buf

\* size, capacity, storage mode and elements of v
Obs(W, v) == [size |-> W.vec[v].m_size, capacity |-> W.vec[v].m_capacity,
              inline |-> InBuffer(W, v), elems |-> Contents(W, v)]

\* v is in the state the data model describes: elements [0, size) live
WellFormed(W, v) ==
    /\ W.vec[v].alive
    /\ \A i \in 0..(W.vec[v].m_size - 1) : Readable(W, v, W.vec[v].m_data, i)

Owned(W, b) == \E v \in AllVecs : W.vec[v].alive /\ W.vec[v].m_data = b

----------------------------------------------------------------------------
(* C1: ~small_vector releases the active region if and only if data is not *)
(* the inline buffer: in every reachable state, destroying a live          *)
(* container whose data is a heap block hands exactly that block to        *)
(* ::operator delete, and destroying one whose data is the inline buffer   *)
(* releases nothing.                                                       *)
C1_DtorReleasesHeapOnly ==
    \A v \in Vecs :
        (~ub /\ Alive(v)) =>
            LET W == dtor(Here, v) IN
            ~W.ub =>
                /\ ~InBuffer(Here, v) => (W.frees = 1 /\ ~W.heap[vec[v].m_data].alloc)
                /\ InBuffer(Here, v) => (W.frees = 0 /\ ~W.delBuf)

(* C2: each live container owns at most one unreleased heap block, its     *)
(* current data: every allocated block is the data of exactly one live     *)
(* container, and a successful reserve(c), c > capacity, on a heap-backed  *)
(* container releases the old block.                                       *)
C2_NoUnreachableBlock ==
    /\ \A b \in Blocks :
           heap[b].alloc => Cardinality({v \in Vecs : Alive(v) /\ vec[v].m_data = b}) = 1
    /\ \A v \in Vecs, c \in 0..MaxCap :
           (~ub /\ Alive(v) /\ ~InBuffer(Here, v) /\ c > vec[v].m_capacity) =>
               LET W == reserve(Here, v, c) IN
               (~W.ub /\ W.exc = "none") => ~W.heap[vec[v].m_data].alloc

(* C3: if element construction k (0 <= k < size) throws while reserve(c),  *)
(* c > capacity, transfers the elements, the exception reaches the caller  *)
(* and size, capacity, data and the element values are what they were.     *)
C3_ReserveStrongGuarantee ==
    \A v \in Vecs, c \in 0..MaxCap, k \in 0..MaxFail :
        (~ub /\ WellFormed(Here, v) /\ c > vec[v].m_capacity /\ CanNew(Here, c)
              /\ k < vec[v].m_size) =>
            LET W == reserve(World(k), v, c) IN
            ~W.ub =>
                /\ W.exc = "elem"
                /\ W.vec[v].m_data = vec[v].m_data
                /\ Obs(W, v) = Obs(Here, v)

(* C4: move construction transfers the contents: the new container has the *)
(* source's former size, capacity and elements, and when the source's data *)
(* was a heap block the new container's data is that block.                *)
C4_MoveTransfersContents ==
    \A v \in Vecs, src \in Vecs :
        (~ub /\ ~Alive(v) /\ WellFormed(Here, src)) =>
            LET W == small_vector_move(Here, v, src) IN
            /\ W.vec[v].m_size = vec[src].m_size
            /\ W.vec[v].m_capacity = vec[src].m_capacity
            /\ Contents(W, v) = Contents(Here, src)
            /\ ~InBuffer(Here, src) => W.vec[v].m_data = vec[src].m_data

AppendSeqs == UNION {[1..n -> Vals] : n \in 1..(N + 2)}

RECURSIVE Appends(_, _, _)
Appends(W, v, xs) ==
    IF xs = << >> \/ W.ub \/ W.exc # "none" THEN W
    ELSE Appends(push_back(W, v, Head(xs)), v, Tail(xs))

(* C5: after move construction from any reachable source, the source has   *)
(* size 0, capacity N and data equal to its own inline buffer, and every   *)
(* sequence of appends to it gives the same size, capacity, storage mode   *)
(* and contents (and the same outcome) as the same appends to a freshly    *)
(* default-constructed container in its place.                             *)
C5_MovedFromIsFresh ==
    \A v \in Vecs, src \in Vecs :
        (~ub /\ ~Alive(v) /\ Alive(src)) =>
            LET W == small_vector_move(Here, v, src)
                F == small_vector_default(W, src)
            IN /\ W.vec[src].m_size = 0
               /\ W.vec[src].m_capacity = N
               /\ InBuffer(W, src)
               /\ \A xs \in AppendSeqs :
                      LET A == Appends(W, src, xs)
                          B == Appends(F, src, xs)
                      IN /\ A.ub = B.ub
                         /\ A.exc = B.exc
                         /\ ~A.ub => Obs(A, src) = Obs(B, src)

\* a heap-backed source with more than N elements is moved from, and N + 1
\* appends then take the moved-from source to the heap again
C5_Witness ==
    \E v \in Vecs, src \in Vecs :
        /\ ~ub /\ ~Alive(v) /\ WellFormed(Here, src)
        /\ ~InBuffer(Here, src) /\ vec[src].m_size > N
        /\ LET W == small_vector_move(Here, v, src) IN
           /\ W.vec[v].m_data = vec[src].m_data
           /\ \E xs \in AppendSeqs :
                  LET A == Appends(W, src, xs) IN
                  /\ Len(xs) = N + 1 /\ ~A.ub /\ A.exc = "none"
                  /\ ~InBuffer(A, src) /\ Contents(A, src) = xs

(* C6: swap is its own inverse: a.swap(b); a.swap(b); leaves both          *)
(* containers with their original size, capacity, storage mode and         *)
(* elements, in any mix of modes.                                          *)
C6_SwapTwiceRestores ==
    \A v \in Vecs, w \in Vecs :
        (~ub /\ v # w /\ WellFormed(Here, v) /\ WellFormed(Here, w)) =>
            LET W == swap(swap(Here, v, w), v, w) IN
            Obs(W, v) = Obs(Here, v) /\ Obs(W, w) = Obs(Here, w)

(* C7: swap exchanges the entire state: after a.swap(b) a has b's former   *)
(* size, capacity and elements and b has a's, and no heap block owned by   *)
(* either side before the call is unowned after it.                        *)
C7_SwapExchanges ==
    \A v \in Vecs, w \in Vecs :
        (~ub /\ v # w /\ WellFormed(Here, v) /\ WellFormed(Here, w)) =>
            LET W == swap(Here, v, w) IN
            /\ W.vec[v].m_size = vec[w].m_size /\ W.vec[w].m_size = vec[v].m_size
            /\ W.vec[v].m_capacity = vec[w].m_capacity
            /\ W.vec[w].m_capacity = vec[v].m_capacity
            /\ Contents(W, v) = Contents(Here, w)
            /\ Contents(W, w) = Contents(Here, v)
            /\ \A b \in Blocks : Owned(Here, b) => Owned(W, b)

(* C8: in every reachable state, a container whose data is the inline      *)
(* buffer has capacity N.                                                  *)
C8_InlineCapacityIsN ==
    \A v \in Vecs : (Alive(v) /\ InBuffer(Here, v)) => vec[v].m_capacity = N

(* C9: in every reachable state of every container, the slots [0, size) of *)
(* the region data points to hold live elements, the slots                 *)
(* [size, capacity) of that region hold none, and no live element lies in  *)
(* the inline buffer while data points elsewhere.                          *)
C9_LiveExactlyBelowSize ==
    \A v \in Vecs :
        Alive(v) =>
            /\ \A i \in 0..(vec[v].m_capacity - 1) :
                   IF i < vec[v].m_size THEN Readable(Here, v, vec[v].m_data, i)
                   ELSE SlotAt(Here, v, i) \in {Raw, "outside"}
            /\ ~InBuffer(Here, v) => vec[v].m_buffer = RawSlots(N)

(* C10: across any sequence of operations including destruction, no heap   *)
(* block is handed to ::operator delete more than once and the inline      *)
(* buffer is never handed to it.                                           *)
C10_NoDoubleFreeNoBufferFree == ~dblFree /\ ~delBuf

\* a reserve whose transfer throws does hand its new block to
\* ::operator delete, and a heap-backed container can be destroyed
C10_Witness ==
    /\ ~ub /\ ~dblFree /\ ~delBuf
    /\ \E v \in Vecs, c \in 0..MaxCap, k \in 0..MaxFail :
           /\ WellFormed(Here, v)
           /\ LET W == reserve(World(k), v, c) IN
              ~W.ub /\ W.exc = "elem" /\ W.frees = 1 /\ ~W.dblFree /\ ~W.delBuf
    /\ \E v \in Vecs :
           /\ WellFormed(Here, v) /\ ~InBuffer(Here, v)
           /\ LET W == dtor(Here, v) IN ~W.ub /\ ~W.dblFree /\ ~W.delBuf

(* C11: copy assignment a = b, for any reachable a and b, leaves a with    *)
(* b's size and a[i] == b[i] for all i < size while b is unchanged;        *)
(* self-assignment a = a leaves a's size and elements unchanged.           *)
C11_CopyAssign ==
    \A v \in Vecs, src \in Vecs :
        (~ub /\ WellFormed(Here, v) /\ WellFormed(Here, src)) =>
            LET W == assign_copy(Here, v, src) IN
            (~W.ub /\ W.exc = "none") =>
                /\ W.vec[v].m_size = vec[src].m_size
                /\ Contents(W, v) = Contents(Here, src)
                /\ v # src => Obs(W, src) = Obs(Here, src)

\* C's size, capacity, data and elements in M are what they are now
Untouched(M, c) ==
    ~M.ub => (Obs(M, c) = Obs(Here, c) /\ M.vec[c].m_data = vec[c].m_data)

\* no append, element write, resize or clear of d in W changes c
MutationsLeave(W, d, c) ==
    /\ \A x \in Vals : Untouched(push_back(W, d, x), c)
    /\ \A pos \in 0..(W.vec[d].m_size - 1), x \in Vals :
           Untouched(subscript_assign(W, d, pos, x), c)
    /\ \A n \in 0..MaxCap, x \in Vals : Untouched(resize(W, d, n, x), c)
    /\ Untouched(clear(W, d), c)

(* C12: for any reachable container C, the copy D constructed from C has   *)
(* D.size() == C.size() and D[i] == C[i] for all i < size, D's data is     *)
(* never C's data, and any later mutation of D (append, element write,     *)
(* resize, clear) leaves C's size, capacity and elements unchanged.        *)
C12_CopyIsIndependent ==
    \A d \in Vecs, c \in Vecs :
        (~ub /\ ~Alive(d) /\ Alive(c)) =>
            LET W == small_vector_copy(Here, d, c) IN
            W.exc = "none" =>
                /\ ~W.ub
                /\ W.vec[d].m_size = vec[c].m_size
                /\ \A i \in 0..(vec[c].m_size - 1) :
                       Readable(W, d, W.vec[d].m_data, i) /\ SlotAt(W, d, i) = SlotAt(Here, c, i)
                /\ ~InBuffer(W, d) => W.vec[d].m_data # vec[c].m_data
                /\ MutationsLeave(W, d, c)

\* v after the first j appends of xs
After(W, v, xs, j) == Appends(W, v, SubSeq(xs, 1, j))

\* the appends of xs that take v from its inline buffer to a heap block
Transitions(W, v, xs) ==
    {j \in 1..Len(xs) : InBuffer(After(W, v, xs, j - 1), v) /\ ~InBuffer(After(W, v, xs, j), v)}

\* append j of xs obeys the growth rule
GrowthRule(W, v, xs, j) ==
    LET P == After(W, v, xs, j - 1)
        Q == After(W, v, xs, j)
    IN /\ (InBuffer(P, v) /\ ~InBuffer(Q, v)) =>
              /\ Size(P, v) = N
              /\ Cap(Q, v) = 2 * N
              /\ Cap(Q, v) >= N + 1
       /\ ~InBuffer(P, v) =>
              /\ ~InBuffer(Q, v)
              /\ IF Size(P, v) = Cap(P, v)
                 THEN /\ Cap(Q, v) = (IF Cap(P, v) = 0 THEN 1 ELSE 2 * Cap(P, v))
                      /\ Data(Q, v) # Data(P, v)
                 ELSE Cap(Q, v) = Cap(P, v) /\ Data(Q, v) = Data(P, v)

(* C13: starting from a default-constructed container, for every sequence  *)
(* of more than N appends that all succeed, data changes from the inline   *)
(* buffer to a heap block exactly once, at the append made when size == N; *)
(* the capacity right after that change is 2*N and at least N+1; every     *)
(* later growth step is taken only when size == capacity and sets capacity *)
(* to max(1, 2 * capacity).                                                *)
C13_OneTransitionThenDoubling ==
    \A v \in Vecs :
        (~ub /\ ~Alive(v)) =>
            \A xs \in AppendSeqs :
                LET W == small_vector_default(Here, v)
                    A == After(W, v, xs, Len(xs))
                IN (Len(xs) > N /\ ~A.ub /\ A.exc = "none") =>
                       /\ Cardinality(Transitions(W, v, xs)) = 1
                       /\ \A j \in 1..Len(xs) : GrowthRule(W, v, xs, j)
                       /\ Contents(A, v) = xs

\* N + 2 appends to a fresh container all succeed: the container goes to
\* the heap at append N + 1 and, with N = 1, grows again at append N + 2
C13_Witness ==
    \E v \in Vecs, xs \in AppendSeqs :
        /\ ~ub /\ ~Alive(v) /\ Len(xs) = N + 2
        /\ \E w \in Vecs : WellFormed(Here, w) /\ vec[w].m_size > 0
        /\ LET W == small_vector_default(Here, v)
               A == After(W, v, xs, Len(xs))
           IN /\ ~A.ub /\ A.exc = "none" /\ ~InBuffer(A, v)
              /\ Transitions(W, v, xs) = {N + 1}
              /\ Cap(After(W, v, xs, N + 1), v) = 2 * N
              /\ Size(A, v) = N + 2

(* C14: starting from a default-constructed container, for every sequence  *)
(* of at most N appends (push_back or emplace_back), no heap allocation is *)
(* performed, capacity stays N and data stays the inline buffer.           *)
C14_NoHeapUpToN ==
    \A v \in Vecs :
        (~ub /\ ~Alive(v)) =>
            \A xs \in AppendSeqs, j \in 0..N, k \in Fails :
                (Len(xs) <= N /\ j <= Len(xs)) =>
                    LET W == small_vector_default(World(k), v)
                        A == After(W, v, xs, j)
                    IN /\ ~A.ub
                       /\ A.exc # "bad_alloc"
                       /\ A.heap = heap
                       /\ Cap(A, v) = N
                       /\ InBuffer(A, v)
                       /\ A.exc = "none" => Contents(A, v) = SubSeq(xs, 1, j)

\* N appends to a fresh container succeed while ::operator new could have
\* granted a block, next to a container that lives on the heap
C14_Witness ==
    \E v \in Vecs, w \in Vecs, xs \in AppendSeqs :
        /\ ~ub /\ ~Alive(v) /\ Len(xs) = N
        /\ WellFormed(Here, w) /\ ~InBuffer(Here, w)
        /\ CanNew(Here, 2 * N)
        /\ LET A == After(small_vector_default(Here, v), v, xs, N)
           IN ~A.ub /\ A.exc = "none" /\ Size(A, v) = N /\ A.heap = heap

\* the initializer-list constructor up to the end of its try block
init_try(W, v, init) ==
    uninitialized_copy(init_alloc(W, v, Len(init), IF Len(init) > N THEN NewId(W) ELSE Buf),
                       v, init, 0)

NewBlocks(W) == {b \in Blocks : W.heap[b].alloc /\ ~heap[b].alloc}

(* C15: constructing from an initializer list of length L sets size == L   *)
(* and capacity == L exactly (also when L < N), copies the elements in     *)
(* order, uses the inline buffer when L <= N and exactly one heap block of *)
(* L slots when L > N; if copying any element fails, the elements already  *)
(* constructed are destroyed and the heap block (if any) is freed before   *)
(* the failure propagates.                                                 *)
C15_InitListCtor ==
    \A v \in Vecs, init \in InitLists, k \in Fails :
        (~ub /\ ~Alive(v) /\ (Len(init) > N => CanNew(Here, Len(init)))) =>
            LET W == small_vector_init(World(k), v, init)
                U == init_try(World(k), v, init)
                L == Len(init)
            IN /\ ~W.ub
               /\ W.exc = (IF k < L THEN "elem" ELSE "none")
               /\ W.exc = "none" =>
                      /\ Size(W, v) = L /\ Cap(W, v) = L
                      /\ Contents(W, v) = init
                      /\ L <= N => (InBuffer(W, v) /\ W.heap = heap)
                      /\ L > N => /\ NewBlocks(W) = {Data(W, v)}
                                  /\ RegLen(W, v, Data(W, v)) = L
               /\ W.exc = "elem" =>
                      /\ \A i \in 0..(RegLen(U, v, Data(U, v)) - 1) :
                             Get(U, v, Data(U, v), i) = Raw
                      /\ W.frees = (IF L > N THEN 1 ELSE 0)
                      /\ W.heap = heap
                      /\ ~W.vec[v].alive
                      /\ ~W.delBuf /\ ~W.dblFree

\* a list of N + 1 elements whose second copy throws after the first was
\* constructed in the fresh block, and a list shorter than N
C15_Witness ==
    \E v \in Vecs, init \in InitLists :
        /\ ~ub /\ ~Alive(v) /\ Len(init) = N + 1 /\ CanNew(Here, N + 1)
        /\ \E w \in Vecs : WellFormed(Here, w) /\ vec[w].m_capacity < N
        /\ LET W == small_vector_init(World(1), v, init)
               S == small_vector_init(Here, v, init)
           IN /\ W.exc = "elem" /\ W.frees = 1 /\ W.heap = heap
              /\ S.exc = "none" /\ ~InBuffer(S, v) /\ Contents(S, v) = init

(* C16: for any reachable container of size s and any k < s, resize(k)     *)
(* followed by resize(s, v) yields a container of size s whose elements at *)
(* indices [0, k) are unchanged and whose elements at indices [k, s) all   *)
(* equal v; the shrinking resize(k) leaves capacity and data unchanged and *)
(* performs no deallocation.                                               *)
C16_ShrinkThenGrow ==
    \A c \in Vecs, k \in 0..MaxCap, x \in Vals :
        (~ub /\ Alive(c) /\ k < vec[c].m_size) =>
            LET s == vec[c].m_size
                S == resize(Here, c, k, x)
                G == resize(S, c, s, x)
            IN /\ ~S.ub
               /\ S.exc = "none"
               /\ Cap(S, c) = vec[c].m_capacity /\ Data(S, c) = vec[c].m_data
               /\ S.frees = 0 /\ S.heap = [b \in Blocks |-> [heap[b] EXCEPT !.slots = S.heap[b].slots]]
               /\ ~G.ub
               /\ G.exc = "none"
               /\ Size(G, c) = s
               /\ \A i \in 0..(s - 1) :
                      SlotAt(G, c, i) = (IF i < k THEN SlotAt(Here, c, i) ELSE x)

(* C17: size <= capacity holds in every state reachable by any sequence of *)
(* constructors and operations (push_back, emplace_back, reserve, resize,  *)
(* clear, swap, assignment, move), including after a failed reserve or a   *)
(* failed append.                                                          *)
C17_SizeAtMostCapacity ==
    /\ \A v \in AllVecs : vec[v].m_size <= vec[v].m_capacity
    /\ \A v \in Vecs, c \in 0..MaxCap, x \in Vals, k \in Fails :
           (~ub /\ Alive(v)) =>
               LET R == reserve(World(k), v, c)
                   P == push_back(World(k), v, x)
               IN /\ ~R.ub => Size(R, v) <= Cap(R, v)
                  /\ ~P.ub => Size(P, v) <= Cap(P, v)

\* a full heap-backed container (size == capacity > N) on which a reserve
\* fails in its transfer and an append fails in its growth step, next to a
\* container with fewer elements
C17_Witness ==
    \E v \in Vecs, w \in Vecs :
        /\ ~ub /\ WellFormed(Here, v) /\ WellFormed(Here, w)
        /\ vec[v].m_size = vec[v].m_capacity /\ vec[v].m_size > N
        /\ vec[w].m_size < vec[v].m_size
        /\ LET R == reserve(World(1), v, vec[v].m_capacity + 1)
               P == push_back(World(1), v, "x")
           IN /\ ~R.ub /\ R.exc = "elem" /\ Size(R, v) = vec[v].m_size
              /\ ~P.ub /\ P.exc = "elem" /\ Size(P, v) = vec[v].m_size

(* C18: at every point where the move constructor, swap, reserve or the    *)
(* destructor consults uses_buffer(), its result equals (data == address   *)
(* of the inline buffer) for the container's state at that point, in every *)
(* reachable state: on entry for the move constructor's source and both    *)
(* sides of swap, and after clear() has set size to 0 for reserve and the  *)
(* destructor.                                                             *)
C18_UsesBufferIsStructural ==
    \A v \in Vecs :
        (~ub /\ WellFormed(Here, v)) =>
            /\ uses_buffer(Here, v) = InBuffer(Here, v)
            /\ LET W == clear(Here, v) IN
               ~W.ub => uses_buffer(W, v) = InBuffer(W, v)

\* reserve(c) up to the end of its try block, the new block being tmp
reserve_try(W, v, tmp, c) == reserve_transfer(operator_new(W, tmp, c), v, tmp, 0)

\* the elements reserve's handler leaves alive in tmp when it has run its
\* destructor call (line 169), which it does only with i > 0
LeftAlive(T, v, tmp) ==
    LET D == IF T.i > 0 THEN destroy(T, v, tmp, T.i - 1) ELSE T
    IN {i \in 0..(RegLen(D, v, tmp) - 1) : Get(D, v, tmp, i) # Raw}

(* C19: when element construction number k fails during reserve's          *)
(* transfer, every one of the k elements already constructed in the new    *)
(* block is destroyed exactly once and the new block is freed exactly once *)
(* before the failure leaves reserve, for every k in 0..size-1.            *)
C19_FailedReserveCleansUp ==
    \A v \in Vecs, c \in 0..MaxCap, k \in 0..MaxFail :
        (~ub /\ WellFormed(Here, v) /\ c > vec[v].m_capacity /\ CanNew(Here, c)
              /\ k < vec[v].m_size) =>
            LET tmp == NewId(Here)
                T == reserve_try(World(k), v, tmp, c)
                W == reserve(World(k), v, c)
            IN /\ T.exc = "elem" /\ T.i = k
               /\ ~W.ub
               /\ LeftAlive(T, v, tmp) = {}
               /\ W.frees = 1 /\ ~W.heap[tmp].alloc /\ ~W.dblFree
               /\ W.exc = "elem"

(* C20: in every reachable state, capacity does not exceed the number of   *)
(* slots of the region data points to (N for the inline buffer, the        *)
(* allocated element count for a heap block), so every slot written by     *)
(* emplace_back at index size < capacity and every slot read through       *)
(* operator[] at an index < size lies inside the active region.            *)
C20_CapacityWithinRegion ==
    \A v \in Vecs :
        Alive(v) =>
            /\ vec[v].m_capacity <= RegLen(Here, v, vec[v].m_data)
            /\ vec[v].m_size < vec[v].m_capacity =>
                   vec[v].m_size < RegLen(Here, v, vec[v].m_data)
            /\ \A i \in 0..(vec[v].m_size - 1) : i < RegLen(Here, v, vec[v].m_data)
            /\ \A x \in Vals :
                   (~ub /\ WellFormed(Here, v) /\ vec[v].m_size < vec[v].m_capacity) =>
                       ~emplace_back(Here, v, x).ub

====
